---- MODULE Spec2Model ----
(***************************************************************************)
(* The three SAT procedures of the repository (resolution_solver,          *)
(* dp_solver, dpll_solver) as one state machine.                           *)
(*                                                                         *)
(* A Python list of clauses is a list of references to clause objects.     *)
(* `heap` holds the clause objects (address -> list of literals); a        *)
(* formula is a sequence of addresses.  A list comprehension that filters  *)
(* a formula keeps the addresses; list(c) and c[:] allocate; c.remove(x)   *)
(* rewrites the object in place.                                           *)
(***************************************************************************)
EXTENDS Integers, Sequences, FiniteSets, TLC

\* ---------------------------------------------------------------- bounds
\* Largest variable index of the enumerated inputs.
MaxVar == 2
\* Largest size of an enumerated input: the sum over its clauses of
\* (number of literals + 1).
MaxSize == 5
\* Largest number of holes of the pigeonhole inputs.
MaxHoles == 2
\* Largest number of literals of a tautological clause added to an input.
MaxTaut == 2
\* Number of clauses and of literals per clause of the random k-CNF inputs.
RandClauses == 3
RandLen == 2

\* The longest file, in lines, and the longest line, in tokens.
MaxLines == 2

MaxToks == 3

\* The clauses of a generated instance, and the tries before the fallback.
MakeClauses == 4

MaxAttempts == 2

\* A variable index past the eight slots of a small set's table.
WideVar == 8

\* ------------------------------------------------------------- utilities
Abs(x) == IF x < 0 THEN -x ELSE x

Range(s) == {s[i] : i \in 1..Len(s)}

\* Op applied to v, with v evaluated once whatever Op does with it.
With(v, Op(_)) == CHOOSE r \in {Op(x) : x \in {v}} : TRUE

SetMin(S) == With(S, LAMBDA T : CHOOSE m \in T : \A x \in T : m <= x)

SetMax(S) == With(S, LAMBDA T : CHOOSE m \in T : \A x \in T : x <= m)

\* `x in c` for a list c.
Has(c, x) == \E i \in 1..Len(c) : c[i] = x

\* A variant of ListRemove that deletes the literal after x as well.
ListRemoveTwo(c, x) ==
    LET i == SetMin({j \in 1..Len(c) : c[j] = x})
    IN  SubSeq(c, 1, i - 1) \o SubSeq(c, i + 2, Len(c))

\* c.remove(x): delete the first occurrence of x (callers test `x in c`).
ListRemove(c, x) ==
    LET i == SetMin({j \in 1..Len(c) : c[j] = x})
    IN  SubSeq(c, 1, i - 1) \o SubSeq(c, i + 1, Len(c))

\* The elements of a finite set of integers in ascending order.
RECURSIVE Sorted(_)
Sorted(S) ==
    With(S, LAMBDA T :
        IF T = {} THEN <<>>
        ELSE With(SetMin(T), LAMBDA m : <<m>> \o Sorted(T \ {m})))

\* ------------------------------------------------------------ Python sets
\* The solvers iterate over sets (vars_both, the literals of a resolvent),
\* and the order of that iteration decides ties.  A CPython set of ints is
\* an open-addressing hash table; the table is a sequence of slots, slot i
\* at index i + 1, 0 for an unused slot (0 is never a literal).

\* A table of n unused slots.
RECURSIVE PyEmptyTable(_)
PyEmptyTable(n) ==
    IF n = 0 THEN <<>>
    ELSE LET half == PyEmptyTable(n \div 2)
         IN  IF n % 2 = 0 THEN half \o half ELSE Append(half \o half, 0)

\* hash(k) of an int.
PyHash(k) == IF k = -1 THEN -2 ELSE k

\* perturb after r shifts by 5 bits of the unsigned 64-bit hash, modulo a
\* table of at most 128 slots, for |h| <= 32.
Perturb(h, r) ==
    IF h >= 0 THEN h \div (32 ^ r)
    ELSE IF r <= 11 THEN -1 ELSE IF r = 12 THEN 15 ELSE 0

\* The slot where key k is found or goes: up to 9 linear probes when they
\* fit below the end of the table, then the perturbed jump.
RECURSIVE PyProbe(_, _, _, _)
PyProbe(tab, k, i, r) ==
    LET size == Len(tab)
        span == IF i + 9 <= size - 1 THEN 9 ELSE 0
        hit == {j \in i..(i + span) : tab[j + 1] = 0 \/ tab[j + 1] = k}
    IN  IF hit # {} THEN SetMin(hit)
        ELSE PyProbe(tab, k, (i * 5 + 1 + Perturb(PyHash(k), r + 1)) % size, r + 1)

PySlot(tab, k) == PyProbe(tab, k, PyHash(k) % Len(tab), 0)

\* The smallest power of two, from n on, that is greater than m.
RECURSIVE PyTableSize(_, _)
PyTableSize(n, m) == IF n > m THEN n ELSE PyTableSize(2 * n, m)

\* Re-insertion of the old table's keys, in slot order, into the new table.
RECURSIVE PyReinsert(_, _, _)
PyReinsert(new, old, i) ==
    IF i > Len(old) THEN new
    ELSE IF old[i] = 0 THEN PyReinsert(new, old, i + 1)
    ELSE With([new EXCEPT ![PySlot(new, old[i]) + 1] = old[i]],
              LAMBDA t : PyReinsert(t, old, i + 1))

\* set.add(k); the table is rebuilt, four times the number of keys wide,
\* once it is three fifths full.
PySetAdd(tab, k) ==
    LET j == PySlot(tab, k)
    IN  IF tab[j + 1] = k THEN tab
        ELSE With([tab EXCEPT ![j + 1] = k],
                  LAMBDA t :
                    LET used == Cardinality({n \in 1..Len(t) : t[n] # 0})
                    IN  IF used * 5 >= (Len(t) - 1) * 3
                        THEN PyReinsert(PyEmptyTable(PyTableSize(8, used * 4)), t, 1)
                        ELSE t)

RECURSIVE PySetFill(_, _, _)
PySetFill(tab, keys, i) ==
    IF i > Len(keys) THEN tab
    ELSE With(PySetAdd(tab, keys[i]), LAMBDA t : PySetFill(t, keys, i + 1))

\* list({k for k in keys}): the keys, added in order, as the set yields them.
PySetList(keys) ==
    LET NonZero(x) == x # 0
    IN  With(keys, LAMBDA ks : SelectSeq(PySetFill(PyEmptyTable(8), ks, 1), NonZero))

\* The values of the clauses a formula refers to.
Deref(h, form) == [i \in 1..Len(form) |-> h[form[i]]]

\* {lit for c in formula for lit in c}
LitsOf(h, form) == UNION {Range(h[form[i]]) : i \in 1..Len(form)}

\* The literals of the formula in the order in which the scan `for c in
\* formula: for lit in c` first meets them.
FirstSeen(h, form) ==
    With(LitsOf(h, form), LAMBDA lits :
    With(1 + SetMax({Len(h[form[i]]) : i \in 1..Len(form)} \cup {0}), LAMBDA w :
    With(1 + SetMax({Abs(l) : l \in lits} \cup {0}), LAMBDA m :
        \* position of the first occurrence of l, then l itself
        LET Key(l) ==
                With(SetMin({n \in 1..Len(form) : Has(h[form[n]], l)}), LAMBDA i :
                With(SetMin({j \in 1..Len(h[form[i]]) : h[form[i]][j] = l}), LAMBDA k :
                    (i * w + k) * (2 * m) + (l + m)))
        IN  With(Sorted({Key(l) : l \in lits}), LAMBDA order :
                 [n \in 1..Len(order) |-> (order[n] % (2 * m)) - m]))))

\* The same set as it is iterated: the literals in table order (adding a
\* key a second time leaves the table as it is).
LitsList(h, form) == PySetList(FirstSeen(h, form))

\* [c for c in formula if lit not in c]
Without(h, form, lit) ==
    LET Keep(a) == ~Has(h[a], lit) IN SelectSeq(form, Keep)

\* A variant of HasEmpty that takes a unit clause for a conflict.
HasShort(h, form) == \E i \in 1..Len(form) : Len(h[form[i]]) <= 1

\* any(len(c) == 0 for c in formula)
HasEmpty(h, form) == \E i \in 1..Len(form) : Len(h[form[i]]) = 0

\* First key of a dict (given in insertion order) whose score is the
\* largest: max(d, key=d.get).
FirstMax(keys, Score(_)) ==
    With(SetMax({Score(keys[i]) : i \in 1..Len(keys)}),
         LAMBDA best : keys[SetMin({i \in 1..Len(keys) : Score(keys[i]) = best})])

\* min(d, key=d.get)
FirstMin(keys, Score(_)) ==
    With(SetMin({Score(keys[i]) : i \in 1..Len(keys)}),
         LAMBDA best : keys[SetMin({i \in 1..Len(keys) : Score(keys[i]) = best})])

\* ---------------------------------------------------------------- inputs
Lits == {l \in (-MaxVar)..MaxVar : l # 0}

\* Every list of clauses of non-zero literals of size at most s.
RECURSIVE Formulas(_)
Formulas(s) ==
    {<<>>} \cup
    UNION {{<<c>> \o f : c \in [1..k -> Lits], f \in Formulas(s - k - 1)}
           : k \in 0..(s - 1)}

\* gen_php_cnf(h): the clauses for h+1 pigeons and h holes; pigeon i in hole
\* j is variable (i-1)*h + j.
PhpVar(h, i, j) == (i - 1) * h + j

\* A variant of PigeonPairs with the neighbouring pigeons only.
PigeonPairsAdjacent(p) == [n \in 1..(p - 1) |-> <<n, n + 1>>]

\* The pairs (i, k), i < k, in the order of the loops over i and k.
PigeonPairs(p) ==
    LET all == [n \in 1..(p * p) |-> <<((n - 1) \div p) + 1, ((n - 1) % p) + 1>>]
        Less(pr) == pr[1] < pr[2]
    IN  SelectSeq(all, Less)

RECURSIVE PhpHoleClauses(_, _)
PhpHoleClauses(h, j) ==
    IF j > h THEN <<>>
    ELSE LET prs == PigeonPairs(h + 1)
         IN  [n \in 1..Len(prs) |->
                 << -PhpVar(h, prs[n][1], j), -PhpVar(h, prs[n][2], j) >>]
             \o PhpHoleClauses(h, j + 1)

GenPhpCnf(h) ==
    [i \in 1..(h + 1) |-> [j \in 1..h |-> PhpVar(h, i, j)]]
    \o PhpHoleClauses(h, 1)

\* A pigeonhole formula with its k-th at-least-one-hole clause removed.
PhpRelaxed(h, k) ==
    LET f == GenPhpCnf(h)
    IN  SubSeq(f, 1, k - 1) \o SubSeq(f, k + 1, Len(f))

PhpInputs ==
    {GenPhpCnf(h) : h \in 1..MaxHoles} \cup
    UNION {{PhpRelaxed(h, k) : k \in 1..(h + 1)} : h \in 1..MaxHoles}

Inputs == Formulas(MaxSize) \cup PhpInputs

\* gen_random_cnf(v, c, k), over every seed: c clauses of k literals, each
\* literal a variable of 1..v with either sign, drawn independently.
GenRandomCnf(v, c, k) == [1..c -> [1..k -> {l \in (-v)..v : l # 0}]]

\* The inputs of the comparison of F with F + [tautology]: the pigeonhole
\* formulas and the random k-CNFs whose first clause is one literal drawn k
\* times.
TautInputs ==
    PhpInputs \cup
    {f \in GenRandomCnf(MaxVar, RandClauses, RandLen) :
        Cardinality(Range(f[1])) = 1}

Strategies == {"none", "mostfreq", "leastfreq"}

Heuristics == {"fixed", "mostfreq", "jeroslow"}

\* ----------------------------------------------------------------- state
VARIABLES
    cnf,            \* the caller's list: addresses of its clause objects
    heap,           \* clause objects: address -> list of literals
    input,          \* the value of the caller's formula when it was built
    solver,         \* "none" | "resolution" | "dp" | "dpll"
    strategy,       \* resolution_solver / dp_solver argument
    heuristic,      \* dpll_solver argument
    pc,             \* position of the running solver
    formula,        \* the solver's working list (addresses)
    clause_counts,  \* telemetry of resolution_solver / dp_solver
    decisions,      \* telemetry of dpll_solver
    stack,          \* frames of backtrack(), innermost last
    ret,            \* what a backtrack() frame has just returned, if any
    result,         \* the dict the solver returned
    steps,          \* variable-elimination steps performed by this call
    calls,          \* backtrack() invocations made by this call
    rootProp,       \* how the root frame's unit propagation ended
    first,          \* the first completed call on this formula
    lines,          \* the lines of the DIMACS file being loaded
    made,           \* the formula make_unsat returned
    attempts        \* the tries of make_unsat so far

\* The state of the callers of the solvers: the loader and the generator.
outer == <<lines, made, attempts>>

vars == <<cnf, heap, input, solver, strategy, heuristic, pc, formula,
          clause_counts, decisions, stack, ret, result, steps, calls,
          rootProp, first, outer>>

NoResult == [none |-> TRUE]

NoRet == "none"

\* The argument the running solver was called with.
Option == IF solver = "dpll" THEN heuristic ELSE strategy

\* The caller's next call: any solver with any argument, except that the
\* comparison of F with F + [tautology] calls the solver it called on F.
Allowed(s, opt) ==
    IF first = NoResult THEN TRUE
    ELSE IF first.same THEN first.solver = s /\ first.option = opt
    ELSE TRUE

InitFrom(inputs) ==
    /\ input \in inputs
    /\ heap = input
    /\ cnf = [i \in 1..Len(input) |-> i]
    /\ solver = "none"
    /\ strategy = "-"
    /\ heuristic = "-"
    /\ pc = "idle"
    /\ formula = <<>>
    /\ clause_counts = <<>>
    /\ decisions = 0
    /\ stack = <<>>
    /\ ret = NoRet
    /\ result = NoResult
    /\ steps = 0
    /\ calls = 0
    /\ rootProp = "none"
    /\ first = NoResult
    /\ lines = <<>>
    /\ made = <<>>
    /\ attempts = 0

Init == InitFrom(Inputs)

\* A variant of DeepCopy that shares the clause objects: formula = cnf.
ShallowCopy(h, form) == [heap |-> h, formula |-> form]

\* formula = [list(c) for c in cnf]: a new object for every clause.
DeepCopy(h, form) ==
    [heap |-> h \o Deref(h, form),
     formula |-> [i \in 1..Len(form) |-> Len(h) + i]]

\* When a call returns, the objects it allocated are unreachable.
Collect(h) == SubSeq(h, 1, Len(cnf))

\* -------------------------------------------------- variable elimination
\* any(-l in c for l in c)
IsTautology(c) == \E i \in 1..Len(c) : Has(c, -c[i])

\* A variant of Resolvent that keeps the literals resolved upon.
ResolventKeep(c1, c2, var) == PySetList(c1 \o c2)

\* list({*(x for x in c1 if x != var), *(y for y in c2 if y != -var)})
Resolvent(c1, c2, var) ==
    LET NotVar(x) == x # var
        NotNeg(y) == y # -var
    IN  PySetList(SelectSeq(c1, NotVar) \o SelectSeq(c2, NotNeg))

\* freq[v]: one per literal of set(c) whose variable is v, over the clauses.
Freq(h, form, v) ==
    Cardinality({pr \in (1..Len(form)) \X {v, -v} : Has(h[form[pr[1]]], pr[2])})

\* The variable to eliminate among vars_both (non-empty, in dict order).
ChooseVar(h, form, vars_both, strat) ==
    LET F(v) == Freq(h, form, v)
    IN  CASE strat = "mostfreq" -> FirstMax(vars_both, F)
          [] strat = "leastfreq" -> FirstMin(vars_both, F)
          [] OTHER -> vars_both[1]

\* pos, neg, the rest, and the non-tautological resolvents appended to it.
Eliminate(h, form, var) ==
    LET InPos(a) == Has(h[a], var)
        InNeg(a) == Has(h[a], -var)
        InRest(a) == ~Has(h[a], var) /\ ~Has(h[a], -var)
        pos == SelectSeq(form, InPos)
        neg == SelectSeq(form, InNeg)
        rest == SelectSeq(form, InRest)
        n == Len(neg)
        all == [k \in 1..(Len(pos) * n) |->
                  Resolvent(h[pos[((k - 1) \div n) + 1]],
                            h[neg[((k - 1) % n) + 1]], var)]
        NotTaut(c) == ~IsTautology(c)
        kept == SelectSeq(all, NotTaut)
    IN  [heap |-> h \o kept,
         formula |-> rest \o [i \in 1..Len(kept) |-> Len(h) + i]]

\* ----------------------------------------------------- resolution_solver
\* One pass of the pure-literal loop; the loop repeats it while it changes.
RECURSIVE ResPureElim(_, _)
ResPureElim(h, form) ==
    LET lits == LitsOf(h, form)
        pure == {l \in lits : -l \notin lits}
        Keep(a) == \A l \in pure : ~Has(h[a], l)
    IN  IF pure = {} THEN form ELSE ResPureElim(h, SelectSeq(form, Keep))

\* vars_both of resolution_solver: the set {abs(l) for c in formula for l
\* in c}, in its iteration order, filtered.
ResVarsBoth(h, form) ==
    LET seen == FirstSeen(h, form)
        vs == PySetList([i \in 1..Len(seen) |-> Abs(seen[i])])
        Both(v) == /\ \E i \in 1..Len(form) : Has(h[form[i]], v)
                   /\ \E i \in 1..Len(form) : Has(h[form[i]], -v)
    IN  SelectSeq(vs, Both)

ResReturn(sat, counts) ==
    /\ result' = [sat |-> sat, clause_counts |-> counts]
    /\ pc' = "done"

\* resolution_solver(cnf, strategy): the copy and the quick checks.
ResStart(strat) ==
    /\ pc = "idle"
    /\ Allowed("resolution", strat)
    /\ solver' = "resolution"
    /\ strategy' = strat
    /\ heuristic' = "-"
    /\ LET cp == DeepCopy(heap, cnf)
       IN  /\ heap' = cp.heap
           /\ formula' = cp.formula
           /\ clause_counts' = <<>>
           /\ IF Len(cp.formula) = 0 THEN ResReturn(TRUE, <<>>)
              ELSE IF HasEmpty(cp.heap, cp.formula) THEN ResReturn(FALSE, <<>>)
              ELSE pc' = "res_loop" /\ result' = NoResult
    /\ steps' = 0
    /\ calls' = 0
    /\ decisions' = 0
    /\ rootProp' = "none"
    /\ UNCHANGED <<cnf, input, stack, ret, first, outer>>

\* One iteration of the while True loop.
ResStep ==
    /\ pc = "res_loop"
    /\ LET purged == ResPureElim(heap, formula)
           vars_both == ResVarsBoth(heap, purged)
       IN  IF Len(purged) = 0 \/ Len(vars_both) = 0
           THEN /\ formula' = purged
                /\ UNCHANGED <<heap, clause_counts, steps>>
                /\ ResReturn(TRUE, clause_counts)
           ELSE LET var == ChooseVar(heap, purged, vars_both, strategy)
                    el == Eliminate(heap, purged, var)
                IN  /\ heap' = el.heap
                    /\ formula' = el.formula
                    /\ clause_counts' = Append(clause_counts, Len(el.formula))
                    /\ steps' = steps + 1
                    /\ IF HasEmpty(el.heap, el.formula)
                       THEN ResReturn(FALSE, Append(clause_counts, Len(el.formula)))
                       ELSE pc' = "res_loop" /\ UNCHANGED result
    /\ UNCHANGED <<cnf, input, solver, strategy, heuristic, decisions, stack,
                   ret, calls, rootProp, first, outer>>

\* ------------------------------------------------------- unit propagation
\* A variant of UnitScan that looks for unit clauses only.
UnitScanUnits(h, form) ==
    LET hits == {i \in 1..Len(form) : Len(h[form[i]]) = 1}
    IN  IF hits = {} THEN 0 ELSE SetMin(hits)

\* The first clause, in list order, that the scan of unit_propagate stops
\* at: an empty clause or a unit clause.  0 when the scan finds neither.
UnitScan(h, form) ==
    LET hits == {i \in 1..Len(form) : Len(h[form[i]]) <= 1}
    IN  IF hits = {} THEN 0 ELSE SetMin(hits)

\* for c in formula: if -lit in c: c.remove(-lit), over the positions lo..hi
\* of the list in order (the range is halved to keep the evaluation shallow).
RECURSIVE RemoveFromAll(_, _, _, _, _)
RemoveFromAll(h, form, lo, hi, x) ==
    IF lo > hi THEN h
    ELSE IF lo = hi
    THEN LET a == form[lo]
         IN  IF Has(h[a], x) THEN [h EXCEPT ![a] = ListRemove(h[a], x)] ELSE h
    ELSE LET mid == (lo + hi) \div 2
         IN  With(RemoveFromAll(h, form, lo, mid, x),
                  LAMBDA h1 : RemoveFromAll(h1, form, mid + 1, hi, x))

\* A variant of Assign that leaves -lit in the clauses it keeps.
AssignKeep(h, form, lit) == [heap |-> h, formula |-> Without(h, form, lit)]

\* Making lit true: drop the clauses holding lit, remove -lit in place from
\* the others.
Assign(h, form, lit) ==
    With(Without(h, form, lit),
         LAMBDA kept : [heap |-> RemoveFromAll(h, kept, 1, Len(kept), -lit),
                        formula |-> kept])

\* -------------------------------------------------------------- dp_solver
\* A variant of DpReturn that records the clause count on every UNSAT
\* return.
DpReturnCounting(sat, counts) ==
    /\ result' = [sat |-> sat,
                  clause_counts |-> IF sat THEN counts
                                    ELSE Append(counts, Len(formula))]
    /\ pc' = "done"

DpReturn(sat, counts) ==
    /\ result' = [sat |-> sat, clause_counts |-> counts]
    /\ pc' = "done"

\* dp_solver(cnf, strategy): the copy.
DpStart(strat) ==
    /\ pc = "idle"
    /\ Allowed("dp", strat)
    /\ solver' = "dp"
    /\ strategy' = strat
    /\ heuristic' = "-"
    /\ LET cp == DeepCopy(heap, cnf)
       IN  heap' = cp.heap /\ formula' = cp.formula
    /\ clause_counts' = <<>>
    /\ pc' = "dp_unit"
    /\ result' = NoResult
    /\ steps' = 0
    /\ calls' = 0
    /\ decisions' = 0
    /\ rootProp' = "none"
    /\ UNCHANGED <<cnf, input, stack, ret, first, outer>>

\* One pass of the while loop of unit_propagate(): a conflict ends the
\* solve, a unit clause is assigned, and a scan that finds neither ends the
\* propagation.
DpUnit ==
    /\ pc = "dp_unit"
    /\ LET i == UnitScan(heap, formula)
       IN  IF i = 0
           THEN pc' = "dp_pure" /\ UNCHANGED <<heap, formula, result>>
           ELSE IF Len(heap[formula[i]]) = 0
           THEN UNCHANGED <<heap, formula>> /\ DpReturn(FALSE, clause_counts)
           ELSE LET as == Assign(heap, formula, heap[formula[i]][1])
                IN  /\ heap' = as.heap
                    /\ formula' = as.formula
                    /\ UNCHANGED <<pc, result>>
    /\ UNCHANGED <<cnf, input, solver, strategy, heuristic, clause_counts,
                   decisions, stack, ret, steps, calls, rootProp, first, outer>>

\* vars_both of dp_solver: the set {abs(l) for l in lits}, filled in the
\* iteration order of lits, in its own iteration order, filtered.
DpVarsBoth(h, form) ==
    LET lits == LitsOf(h, form)
        ll == LitsList(h, form)
        vs == PySetList([i \in 1..Len(ll) |-> Abs(ll[i])])
        Both(v) == v \in lits /\ -v \in lits
    IN  SelectSeq(vs, Both)

\* The pure-literal rule and the two SAT exits that follow it.
DpPure ==
    /\ pc = "dp_pure"
    /\ LET lits == LitsOf(heap, formula)
           pure == {l \in lits : -l \notin lits}
           Keep(a) == \A l \in pure : ~Has(heap[a], l)
       IN  IF pure # {}
           THEN /\ formula' = SelectSeq(formula, Keep)
                /\ pc' = "dp_unit"
                /\ UNCHANGED result
           ELSE /\ UNCHANGED formula
                /\ IF Len(formula) = 0 \/ Len(DpVarsBoth(heap, formula)) = 0
                   THEN DpReturn(TRUE, clause_counts)
                   ELSE pc' = "dp_elim" /\ UNCHANGED result
    /\ UNCHANGED <<cnf, heap, input, solver, strategy, heuristic,
                   clause_counts, decisions, stack, ret, steps, calls,
                   rootProp, first, outer>>

\* The elimination step: choose, resolve, record the clause count.
DpEliminate ==
    /\ pc = "dp_elim"
    /\ LET var == ChooseVar(heap, formula, DpVarsBoth(heap, formula), strategy)
           el == Eliminate(heap, formula, var)
       IN  /\ heap' = el.heap
           /\ formula' = el.formula
           /\ clause_counts' = Append(clause_counts, Len(el.formula))
           /\ steps' = steps + 1
           /\ IF HasEmpty(el.heap, el.formula)
              THEN DpReturn(FALSE, Append(clause_counts, Len(el.formula)))
              ELSE pc' = "dp_unit" /\ UNCHANGED result
    /\ UNCHANGED <<cnf, input, solver, strategy, heuristic, decisions, stack,
                   ret, calls, rootProp, first, outer>>

\* ------------------------------------------------------------ dpll_solver
\* The keys of a dict filled by scanning the literals of the formula: the
\* literals in the order of their first occurrence.
DictKeys(h, form) == FirstSeen(h, form)

\* counts[lit]: the occurrences of lit in the formula.
Counts(h, form, lit) ==
    Cardinality({pr \in (1..Len(form)) \X (1..SetMax({Len(h[form[i]]) : i \in 1..Len(form)}))
                   : pr[2] <= Len(h[form[pr[1]]]) /\ h[form[pr[1]]][pr[2]] = lit})

Pow2(n) == IF n <= 0 THEN 1 ELSE 2 ^ n

\* scores[lit] of jeroslow_wang_literal, every weight 2 ** (-len(clause))
\* multiplied by 2 ** W, W the longest clause: the sums are exact in
\* floating point, so the scaled integers compare as the floats do.
RECURSIVE JwScore(_, _, _, _, _)
JwScore(h, form, i, lit, W) ==
    IF i > Len(form) THEN 0
    ELSE LET c == h[form[i]]
             occ == Cardinality({k \in 1..Len(c) : c[k] = lit})
         IN  occ * Pow2(W - Len(c)) + JwScore(h, form, i + 1, lit, W)

jeroslow_wang_literal(h, form) ==
    With(SetMax({Len(h[form[i]]) : i \in 1..Len(form)}),
         LAMBDA W : With(DictKeys(h, form),
                         LAMBDA keys : FirstMax(keys, LAMBDA l : JwScore(h, form, 1, l, W))))

\* A variant of Choices that branches on a variable no clause holds.
ChoicesAbsent(h, form, lits, heur) == <<MaxVar + 1, -(MaxVar + 1)>>

\* choices: the branching literal and its negation.  lits is the literal
\* set taken before the pure-literal removal, form the formula after it.
Choices(h, form, lits, heur) ==
    LET C(l) == Counts(h, form, l)
    IN  CASE heur = "mostfreq" ->
               With(With(DictKeys(h, form), LAMBDA keys : FirstMax(keys, C)),
                    LAMBDA lit : <<lit, -lit>>)
          [] heur = "jeroslow" ->
               With(jeroslow_wang_literal(h, form), LAMBDA lit : <<lit, -lit>>)
          [] OTHER ->
               With(SetMin({Abs(l) : l \in lits}), LAMBDA var : <<var, -var>>)

\* new_form = [c[:] for c in form]: a new object for every clause.
CopyForm(h, form) == DeepCopy(h, form)

Frame(form) == [form |-> form, at |-> "unit", choices |-> <<>>, i |-> 1]

Top == stack[Len(stack)]

Pop == SubSeq(stack, 1, Len(stack) - 1)

SetTop(f) == [stack EXCEPT ![Len(stack)] = f]

\* A variant of FreshCounter for a counter that outlives the call.
StaleCounter(old) == old

\* A variant of FreshCounter that counts the root call of backtrack().
RootCounted(old) == 1

\* decisions = 0: the counter is a local of the call, whatever value an
\* earlier call left behind.
FreshCounter(old) == 0

\* A variant of Decide without the increment.
Undecided(d) == d

\* decisions += 1
Decide(d) == d + 1

\* dpll_solver(cnf, heuristic): the copy and the root call of backtrack().
DpllStart(heur) ==
    /\ pc = "idle"
    /\ Allowed("dpll", heur)
    /\ solver' = "dpll"
    /\ heuristic' = heur
    /\ strategy' = "-"
    /\ LET cp == DeepCopy(heap, cnf)
       IN  /\ heap' = cp.heap
           /\ formula' = cp.formula
           /\ stack' = <<Frame(cp.formula)>>
    /\ decisions' = FreshCounter(decisions)
    /\ calls' = 1
    /\ pc' = "dpll"
    /\ ret' = NoRet
    /\ result' = NoResult
    /\ clause_counts' = <<>>
    /\ steps' = 0
    /\ rootProp' = "none"
    /\ UNCHANGED <<cnf, input, first, outer>>

\* One pass of the unit-propagation loop of the innermost frame.
DpllUnit ==
    /\ pc = "dpll" /\ ret = NoRet /\ Len(stack) > 0 /\ Top.at = "unit"
    /\ \E form \in {Top.form} : \E i \in {UnitScan(heap, form)} :
       LET root == Len(stack) = 1
       IN  IF i = 0
           THEN /\ stack' = SetTop([Top EXCEPT !.at = "pure"])
                /\ rootProp' = IF root
                               THEN (IF Len(form) = 0 THEN "empty" ELSE "open")
                               ELSE rootProp
                /\ UNCHANGED <<heap, ret>>
           ELSE IF Len(heap[form[i]]) = 0
           THEN /\ stack' = Pop
                /\ ret' = "False"
                /\ rootProp' = IF root THEN "conflict" ELSE rootProp
                /\ UNCHANGED heap
           ELSE \E as \in {Assign(heap, form, heap[form[i]][1])} :
                    /\ heap' = as.heap
                    /\ stack' = SetTop([Top EXCEPT !.form = as.formula])
                    /\ UNCHANGED <<ret, rootProp>>
    /\ formula' = IF Len(stack') >= 1 THEN stack'[1].form ELSE formula
    /\ UNCHANGED <<cnf, input, solver, strategy, heuristic, pc, clause_counts,
                   decisions, result, steps, calls, first, outer>>

\* Pure-literal removal, the terminal tests and the choice of the branching
\* literal of the innermost frame.
DpllPure ==
    /\ pc = "dpll" /\ ret = NoRet /\ Len(stack) > 0 /\ Top.at = "pure"
    /\ \E lits \in {LitsOf(heap, Top.form)} :
       \E pure \in {{l \in lits : -l \notin lits}} :
       \E form \in {SelectSeq(Top.form,
                              LAMBDA a : \A l \in pure : ~Has(heap[a], l))} :
           IF Len(form) = 0
           THEN stack' = Pop /\ ret' = "True"
           ELSE IF HasEmpty(heap, form)
           THEN stack' = Pop /\ ret' = "False"
           ELSE /\ stack' = SetTop([form |-> form, at |-> "branch",
                                    choices |-> Choices(heap, form, lits, heuristic),
                                    i |-> 1])
                /\ UNCHANGED ret
    /\ formula' = IF Len(stack') >= 1 THEN stack'[1].form ELSE <<>>
    /\ UNCHANGED <<cnf, heap, input, solver, strategy, heuristic, pc,
                   clause_counts, decisions, result, steps, calls, rootProp,
                   first, outer>>

\* The body of `for lit in choices`: count the decision, build new_form and
\* call backtrack(new_form); the exhausted loop returns False.
DpllBranch ==
    /\ pc = "dpll" /\ ret = NoRet /\ Len(stack) > 0 /\ Top.at = "branch"
    /\ IF Top.i > Len(Top.choices)
       THEN /\ stack' = Pop
            /\ ret' = "False"
            /\ UNCHANGED <<heap, decisions, calls>>
       ELSE \E lit \in {Top.choices[Top.i]} :
            \E cp \in {CopyForm(heap, Top.form)} :
            \E as \in {Assign(cp.heap, cp.formula, lit)} :
                /\ decisions' = Decide(decisions)
                /\ heap' = as.heap
                /\ stack' = Append(stack, Frame(as.formula))
                /\ calls' = calls + 1
                /\ UNCHANGED ret
    /\ UNCHANGED <<cnf, input, solver, strategy, heuristic, pc, formula,
                   clause_counts, result, steps, rootProp, first, outer>>

\* The caller of backtrack(new_form) takes the returned value: True is
\* passed up, False moves on to the next choice.
DpllResume ==
    /\ pc = "dpll" /\ ret # NoRet /\ Len(stack) > 0
    /\ IF ret = "True"
       THEN stack' = Pop /\ UNCHANGED ret
       ELSE stack' = SetTop([Top EXCEPT !.i = Top.i + 1]) /\ ret' = NoRet
    /\ UNCHANGED <<cnf, heap, input, solver, strategy, heuristic, pc, formula,
                   clause_counts, decisions, result, steps, calls, rootProp,
                   first, outer>>

\* sat = backtrack(formula) has returned: the result dict.
DpllReturn ==
    /\ pc = "dpll" /\ ret # NoRet /\ Len(stack) = 0
    /\ result' = [sat |-> (ret = "True"), decisions |-> decisions]
    /\ pc' = "done"
    /\ UNCHANGED <<cnf, heap, input, solver, strategy, heuristic, formula,
                   clause_counts, decisions, stack, ret, steps, calls,
                   rootProp, first, outer>>

Next ==
    \/ \E st \in Strategies : ResStart(st)
    \/ ResStep
    \/ \E st \in Strategies : DpStart(st)
    \/ DpUnit
    \/ DpPure
    \/ DpEliminate
    \/ \E h \in Heuristics : DpllStart(h)
    \/ DpllUnit
    \/ DpllPure
    \/ DpllBranch
    \/ DpllResume
    \/ DpllReturn

Spec == Init /\ [][Next]_vars

\* ------------------------------------------------------------ the caller
\* The caller passes the same cnf to the next runner (for label, run in
\* runners: stats = run(cnf)).  The finished call's objects are
\* unreachable; its result is kept in `first` if it is the first one.
Again ==
    /\ pc = "done"
    /\ pc' = "idle"
    /\ heap' = Collect(heap)
    /\ formula' = <<>>
    /\ ret' = NoRet
    /\ first' = IF first = NoResult
                THEN [solver |-> solver, option |-> Option, result |-> result,
                      same |-> FALSE]
                ELSE first
    /\ UNCHANGED <<cnf, input, solver, strategy, heuristic, clause_counts,
                   decisions, stack, result, steps, calls, rootProp, outer>>

\* The clauses that hold some literal and its negation.
Tauts ==
    {c \in UNION {[1..k -> Lits] : k \in 2..MaxTaut} : IsTautology(c)}

\* The caller solves F, then F with one more clause, a tautology, with the
\* same solver and argument.
AddTaut ==
    /\ pc = "done"
    /\ first = NoResult
    /\ \E t \in Tauts :
          /\ input' = Append(input, t)
          /\ heap' = Append(Collect(heap), t)
          /\ cnf' = Append(cnf, Len(cnf) + 1)
    /\ pc' = "idle"
    /\ formula' = <<>>
    /\ ret' = NoRet
    /\ first' = [solver |-> solver, option |-> Option, result |-> result,
                 same |-> TRUE]
    /\ UNCHANGED <<solver, strategy, heuristic, clause_counts, decisions,
                   stack, result, steps, calls, rootProp, outer>>

NextRepeat == Next \/ Again

SpecRepeat == Init /\ [][NextRepeat]_vars

NextTaut == Next \/ AddTaut

InitTaut == InitFrom(TautInputs)

SpecTaut == InitTaut /\ [][NextTaut]_vars

\* Random instances over variables 1..MaxVar - 1 and WideVar: the outcomes
\* of gen_random_cnf with the variable MaxVar read as WideVar.
Widen(f) ==
    [i \in 1..Len(f) |->
        [j \in 1..Len(f[i]) |->
            IF f[i][j] = MaxVar THEN WideVar
            ELSE IF f[i][j] = -MaxVar THEN -WideVar
            ELSE f[i][j]]]

WideInputs == {Widen(f) : f \in GenRandomCnf(MaxVar, RandClauses, RandLen)}

InitWide == InitFrom(WideInputs)

SpecWide == InitWide /\ [][Next]_vars

\* ------------------------------------------------------------ load_dimacs
\* A line of a DIMACS file: the letter it starts with, if "c" or "p", and
\* the integers int() makes of the tokens of line.split().
Tokens == (-MaxVar)..MaxVar

Lines ==
    {[head |-> "c", nums |-> <<>>], [head |-> "p", nums |-> <<>>]} \cup
    {[head |-> "", nums |-> t] : t \in UNION {[1..k -> Tokens] : k \in 0..MaxToks}}

Files == UNION {[1..n -> Lines] : n \in 0..MaxLines}

\* load_dimacs(path): comment and problem lines are skipped, so are lines
\* without a token; every other line gives its tokens but the last.
load_dimacs(f) ==
    LET Clause(l) == l.head \notin {"c", "p"} /\ Len(l.nums) > 0
        kept == SelectSeq(f, Clause)
    IN  [i \in 1..Len(kept) |-> SubSeq(kept[i].nums, 1, Len(kept[i].nums) - 1)]

\* cnf = load_dimacs(path): the caller's formula is what the loader returns.
LoadDimacs ==
    /\ pc = "file"
    /\ input' = load_dimacs(lines)
    /\ heap' = input'
    /\ cnf' = [i \in 1..Len(input') |-> i]
    /\ pc' = "idle"
    /\ UNCHANGED <<solver, strategy, heuristic, formula, clause_counts,
                   decisions, stack, ret, result, steps, calls, rootProp,
                   first, outer>>

InitLoad ==
    /\ lines \in Files
    /\ pc = "file"
    /\ input = <<>> /\ heap = <<>> /\ cnf = <<>>
    /\ solver = "none" /\ strategy = "-" /\ heuristic = "-"
    /\ formula = <<>> /\ clause_counts = <<>> /\ decisions = 0
    /\ stack = <<>> /\ ret = NoRet /\ result = NoResult
    /\ steps = 0 /\ calls = 0 /\ rootProp = "none" /\ first = NoResult
    /\ made = <<>> /\ attempts = 0

SpecLoad == InitLoad /\ [][LoadDimacs]_vars

\* ------------------------------------------------------------- make_unsat
\* The outcomes of gen_random_cnf(v, c, k) whose clauses hold k different
\* variables in ascending order.
RandomAscending(v, c, k) ==
    LET Asc(cl) == \A i \in 1..(k - 1) : Abs(cl[i]) < Abs(cl[i + 1])
    IN  [1..c -> {cl \in [1..k -> {l \in (-v)..v : l # 0}] : Asc(cl)}]

\* cnf = gen_random_cnf(v, c, seed=...): the instance of a try.
Candidates == RandomAscending(MaxVar, MakeClauses, RandLen)

\* rnd.shuffle(cnf): the list in any order.
Shuffles(f) ==
    {[i \in 1..Len(f) |-> f[p[i]]] :
        p \in {q \in [1..Len(f) -> 1..Len(f)] : Range(q) = 1..Len(f)}}

\* The fallback of make_unsat: rest + [pos, neg], shuffled.
Fallbacks ==
    LET pos == [x \in 1..MaxVar |-> x]
        neg == [x \in 1..MaxVar |-> -x]
    IN  UNION {Shuffles(rest \o <<pos, neg>>) :
                 rest \in RandomAscending(MaxVar, MakeClauses - 2, RandLen)}

\* classify(cnf): the alarm goes off while dpll_solver runs; TimeoutError is
\* caught, classify returns False and make_unsat returns the instance.
ClassifyTimeout ==
    /\ pc = "dpll"
    /\ made' = Deref(heap, cnf)
    /\ pc' = "made"
    /\ UNCHANGED <<cnf, heap, input, solver, strategy, heuristic, formula,
                   clause_counts, decisions, stack, ret, result, steps, calls,
                   rootProp, first, lines, attempts>>

\* if not classify(cnf): return cnf
MakeAccept ==
    /\ pc = "done" /\ ~result.sat
    /\ made' = Deref(heap, cnf)
    /\ pc' = "made"
    /\ UNCHANGED <<cnf, heap, input, solver, strategy, heuristic, formula,
                   clause_counts, decisions, stack, ret, result, steps, calls,
                   rootProp, first, lines, attempts>>

\* classify(cnf) was True: the next try, with a new instance.
MakeRetry ==
    /\ pc = "done" /\ result.sat
    /\ attempts + 1 < MaxAttempts
    /\ attempts' = attempts + 1
    /\ input' \in Candidates
    /\ heap' = input'
    /\ cnf' = [i \in 1..Len(input') |-> i]
    /\ pc' = "idle"
    /\ formula' = <<>>
    /\ ret' = NoRet
    /\ UNCHANGED <<solver, strategy, heuristic, clause_counts, decisions,
                   stack, result, steps, calls, rootProp, first, lines, made>>

\* The tries are used up: the fallback instance is returned.
MakeFallback ==
    /\ pc = "done" /\ result.sat
    /\ attempts + 1 = MaxAttempts
    /\ attempts' = attempts + 1
    /\ made' \in Fallbacks
    /\ pc' = "made"
    /\ UNCHANGED <<cnf, heap, input, solver, strategy, heuristic, formula,
                   clause_counts, decisions, stack, ret, result, steps, calls,
                   rootProp, first, lines>>

NextMake ==
    \/ DpllStart("mostfreq")
    \/ DpllUnit
    \/ DpllPure
    \/ DpllBranch
    \/ DpllResume
    \/ DpllReturn
    \/ ClassifyTimeout
    \/ MakeAccept
    \/ MakeRetry
    \/ MakeFallback

InitMake == InitFrom(Candidates)

SpecMake == InitMake /\ [][NextMake]_vars

\* ============================================================ properties
\* Truth-table semantics of a CNF given as a list of clauses.
VarsOf(f) == UNION {{Abs(f[i][j]) : j \in 1..Len(f[i])} : i \in 1..Len(f)}

\* Some truth assignment (the set of true variables) satisfies every clause.
Satisfiable(f) ==
    \E A \in SUBSET VarsOf(f) :
        \A i \in 1..Len(f) :
            \E j \in 1..Len(f[i]) :
                \/ f[i][j] > 0 /\ f[i][j] \in A
                \/ f[i][j] < 0 /\ -f[i][j] \notin A

\* No clause repeats a literal or holds a complementary pair.
Clean(f) ==
    \A i \in 1..Len(f) :
        \A j, k \in 1..Len(f[i]) :
            j # k => f[i][j] # f[i][k] /\ f[i][j] # -f[i][k]

\* A second call on the same formula has returned.
Repeated == pc = "done" /\ first # NoResult

\* C1: for every input, repeated literals allowed, a later call of any of
\* the three solvers with any strategy or heuristic returns the sat verdict
\* of the first call on the same formula.
C1_SolversAgree ==
    (Repeated /\ ~first.same) => result.sat = first.result.sat

\* C2: on a clean input resolution_solver returns sat = false exactly when
\* no truth assignment satisfies every clause, for every strategy.
C2_ResolutionDecides ==
    (pc = "done" /\ solver = "resolution" /\ Clean(input))
        => (result.sat = FALSE <=> ~Satisfiable(input))

\* resolution_solver refuted a clean input after two or more eliminations.
C2_Witness ==
    /\ pc = "done" /\ solver = "resolution" /\ Clean(input)
    /\ ~result.sat /\ Len(result.clause_counts) >= 2

\* C3: on a clean input dpll_solver returns sat = true exactly when some
\* truth assignment satisfies every clause, for every heuristic.
C3_DpllDecides ==
    (pc = "done" /\ solver = "dpll" /\ Clean(input))
        => (result.sat = TRUE <=> Satisfiable(input))

\* dpll_solver found a clean input satisfiable after two or more branching
\* assumptions.
C3_Witness ==
    /\ pc = "done" /\ solver = "dpll" /\ Clean(input)
    /\ result.sat /\ result.decisions >= 2

\* C4: on a clean input dp_solver returns sat = true exactly when some
\* truth assignment satisfies every clause, for every strategy; so a
\* unit-propagation conflict yields sat = false only on unsatisfiable input.
C4_DpDecides ==
    (pc = "done" /\ solver = "dp" /\ Clean(input))
        => (result.sat = TRUE <=> Satisfiable(input))

\* dp_solver refuted a clean input by a unit-propagation conflict that
\* followed an elimination.
C4_Witness ==
    /\ pc = "done" /\ solver = "dp" /\ Clean(input)
    /\ ~result.sat /\ steps >= 1 /\ Len(result.clause_counts) = steps
    /\ \E i \in 1..Len(formula) : Len(heap[formula[i]]) = 0

\* C5: when a call has returned, the caller's list holds the same clause
\* objects in the same order and every one of them has the literals it
\* had when the formula was built.
C5_InputUnchanged ==
    pc = "done" =>
        /\ cnf = [i \in 1..Len(input) |-> i]
        /\ Deref(heap, cnf) = input

\* A call has returned after removing a literal in place from its copy of
\* some clause of the caller.
C5_Witness ==
    /\ pc = "done"
    /\ \E i \in 1..Len(cnf) : Len(heap[Len(cnf) + i]) < Len(input[i])

\* C6: the solver called on F + [tautology], with the strategy or heuristic
\* it was called with on F, returns the sat verdict it returned on F.
C6_TautologyNeutral ==
    (Repeated /\ first.same) => result.sat = first.result.sat

\* C7: a later call of the solver of the first call, with the same
\* argument, on the same formula, returns the same result: sat,
\* clause_counts and decisions.
C7_Deterministic ==
    (Repeated /\ ~first.same /\ first.solver = solver /\ first.option = Option)
        => result = first.result

\* dpll_solver was called again with the same heuristic after a call that
\* made decisions.
C7_Witness ==
    /\ Repeated /\ ~first.same
    /\ first.solver = solver /\ first.option = Option
    /\ solver = "dpll" /\ first.result.decisions >= 1

\* C8: decisions is the number of backtrack() invocations other than the
\* root one, it is never negative, the returned value is the counter, and
\* a step of unit propagation or of pure-literal removal leaves it as it
\* is.
C8_DecisionsCountBranches ==
    /\ []((solver = "dpll" /\ pc \in {"dpll", "done"}) =>
            /\ decisions >= 0
            /\ decisions = calls - 1
            /\ (pc = "done" => result.decisions = decisions))
    /\ [][(pc = "dpll" /\ ret = NoRet /\ Len(stack) > 0
             /\ stack[Len(stack)].at \in {"unit", "pure"})
          => decisions' = decisions]_vars

\* dpll_solver returned after two or more branching assumptions.
C8_Witness ==
    pc = "done" /\ solver = "dpll" /\ result.decisions >= 2 /\ calls >= 3

\* C9: when the root frame's unit propagation ends in a conflict or in the
\* empty formula, the returned decisions is 0, for every heuristic.
C9_UnitOnlyNoDecisions ==
    (pc = "done" /\ solver = "dpll" /\ rootProp \in {"conflict", "empty"})
        => result.decisions = 0

\* dpll_solver met a conflict in the root frame's propagation of an input
\* that has no empty clause.
C9_Witness ==
    /\ pc = "done" /\ solver = "dpll" /\ rootProp = "conflict"
    /\ \A i \in 1..Len(input) : Len(input[i]) >= 1

\* C10: in resolution_solver and dp_solver every variable-elimination step
\* appends to clause_counts the number of clauses of the working formula
\* right after it (also when it derives the empty clause and returns sat =
\* false), no other step changes clause_counts, and the returned
\* clause_counts is that list: a return by unit-propagation conflict, by
\* pure-literal removal or for want of a bipolar variable appends nothing.
C10_ClauseCountsPerStep ==
    [][(solver' \in {"resolution", "dp"} /\ pc # "done") =>
          /\ IF pc = "idle"
             THEN steps' = 0 /\ clause_counts' = <<>>
             ELSE IF steps' = steps + 1
             THEN clause_counts' = Append(clause_counts, Len(formula'))
             ELSE steps' = steps /\ clause_counts' = clause_counts
          /\ Len(clause_counts') = steps'
          /\ pc' = "done" => result'.clause_counts = clause_counts'
          /\ (pc' = "done" /\ steps' = steps + 1) => ~result'.sat]_vars

\* dp_solver returned sat = false by a unit-propagation conflict after two
\* or more eliminations, and the conflict added no entry.
C10_Witness ==
    /\ pc = "done" /\ solver = "dp" /\ ~result.sat /\ steps >= 2
    /\ Len(result.clause_counts) = steps
    /\ Len(formula) # result.clause_counts[steps]

\* The variable the next elimination step of the running solver picks (the
\* solver is at its loop, with a bipolar variable left).
NextVar ==
    IF solver = "resolution"
    THEN LET purged == ResPureElim(heap, formula)
         IN  ChooseVar(heap, purged, ResVarsBoth(heap, purged), strategy)
    ELSE ChooseVar(heap, formula, DpVarsBoth(heap, formula), strategy)

\* x or -x occurs in some clause of the formula.
Occurs(h, form, x) ==
    \E i \in 1..Len(form) : Has(h[form[i]], x) \/ Has(h[form[i]], -x)

\* C11: in resolution_solver and dp_solver an elimination step on var
\* leaves no clause holding var or -var, and the number of steps never
\* exceeds the number of distinct variables of the input, for every input.
C11_StepEliminatesVar ==
    /\ [](solver \in {"resolution", "dp"} =>
            steps <= Cardinality(VarsOf(input)))
    /\ [][(solver \in {"resolution", "dp"} /\ steps' = steps + 1) =>
            ~Occurs(heap', formula', NextVar)]_vars


\* The steps of a running call of dpll_solver.
DpllRun == DpllUnit \/ DpllPure \/ DpllBranch \/ DpllResume \/ DpllReturn

\* A call of dpll_solver with any heuristic.
NextDpll == (\E h \in Heuristics : DpllStart(h)) \/ DpllRun

\* The interpreter runs a call to its return: while the call can take a
\* step, it takes one.
SpecLive == Init /\ [][NextDpll]_vars /\ WF_vars(DpllRun)

\* The number of literals of a formula, repetitions counted.
RECURSIVE Size(_, _)
Size(h, form) ==
    IF Len(form) = 0 THEN 0
    ELSE Len(h[form[1]]) + Size(h, SubSeq(form, 2, Len(form)))

\* A branching frame whose first choice is a variable its formula no longer
\* holds (fixed takes the variable from the literals met before pure-literal
\* removal).
StaleBranch(k) ==
    /\ stack[k].at = "branch"
    /\ ~Occurs(heap, stack[k].form, stack[k].choices[1])

\* C12: every call of dpll_solver returns a verdict. Along the chain of
\* backtrack frames the formula never grows from a frame to the one it
\* calls and is strictly smaller, in literals, two frames down, so the
\* depth of the recursion is bounded by the size of the input; and a call
\* that has started reaches its return.
C12_DpllTerminates ==
    /\ [](solver = "dpll" /\ pc = "dpll" =>
            /\ \A k \in 1..(Len(stack) - 1) :
                  Size(heap, stack[k + 1].form) <= Size(heap, stack[k].form)
            /\ \A k \in 1..(Len(stack) - 2) :
                  Size(heap, stack[k + 2].form) < Size(heap, stack[k].form)
            /\ Len(stack) <= 2 * Size(heap, cnf) + 1)
    /\ (pc = "dpll") ~> (pc = "done" /\ solver = "dpll" /\ result # NoResult)

\* C12 witness: a fixed-heuristic frame branched on a variable absent from
\* its formula, and the recursion went two frames below it.
C12_Witness ==
    /\ solver = "dpll" /\ pc = "dpll" /\ heuristic = "fixed"
    /\ Len(stack) >= 3
    /\ StaleBranch(1)
    /\ Size(heap, stack[2].form) = Size(heap, stack[1].form)


\* The pigeonhole formulas, the one of 3 pigeons and 2 holes, and the
\* formulas with one at-least-one-hole clause removed.
PhpFull == {GenPhpCnf(h) : h \in 1..MaxHoles}

Php32 == GenPhpCnf(2)

PhpOpen == UNION {{PhpRelaxed(h, k) : k \in 1..(h + 1)} : h \in 1..MaxHoles}

\* The sizes of the pigeonhole formulas.
PhpShape ==
    /\ \A h \in 1..MaxHoles :
          Cardinality(VarsOf(GenPhpCnf(h))) = (h + 1) * h
    /\ Cardinality(VarsOf(Php32)) = 6
    /\ Len(Php32) = 9

\* C13: for every h of 1..MaxHoles the pigeonhole formula of h + 1 pigeons
\* and h holes has (h + 1) * h variables and is reported UNSAT by every
\* solver under every strategy and heuristic; for h = 2 it has 6 variables
\* and 9 clauses and dpll_solver with fixed makes at least one decision;
\* with one at-least-one-hole clause removed every solver reports SAT.
C13_PigeonholeUnsat ==
    /\ PhpShape
    /\ pc = "done" =>
          /\ input \in PhpFull => ~result.sat
          /\ (input = Php32 /\ solver = "dpll" /\ heuristic = "fixed") =>
                result.decisions > 0
          /\ input \in PhpOpen => result.sat

\* C13 witness: dpll_solver with fixed has refuted the formula of 3 pigeons
\* and 2 holes after branching.
C13_Witness ==
    /\ pc = "done" /\ solver = "dpll" /\ heuristic = "fixed"
    /\ input = Php32
    /\ ~result.sat /\ result.decisions > 0


\* A clause line as DIMACS writes it: non-zero literals, then one 0.
WellFormed(l) ==
    \/ l.head \in {"c", "p"}
    \/ Len(l.nums) = 0
    \/ /\ l.nums[Len(l.nums)] = 0
       /\ \A k \in 1..(Len(l.nums) - 1) : l.nums[k] # 0

\* The non-zero integers of the clause lines of a file, line by line.
LiteralsOf(f) ==
    LET Clause(l) == l.head \notin {"c", "p"} /\ Len(l.nums) > 0
        kept == SelectSeq(f, Clause)
        NonZero(x) == x # 0
    IN  [i \in 1..Len(kept) |-> SelectSeq(kept[i].nums, NonZero)]

\* C14: load_dimacs surfaces a malformed clause line (no terminating 0, or
\* a 0 before the end) as an error; what it returns holds no literal 0 and
\* every literal of every clause line.
C14_MalformedRejected ==
    [][pc = "file" =>
         /\ (\E i \in 1..Len(lines) : ~WellFormed(lines[i])) => pc' = "error"
         /\ pc' = "idle" =>
               /\ \A i \in 1..Len(input') : ~Has(input'[i], 0)
               /\ input' = LiteralsOf(lines)]_vars


\* C15: every formula make_unsat returns is unsatisfiable, whether it is a
\* random instance that classify did not call SAT (dpll_solver said UNSAT,
\* or the timeout cut the solve off) or the fallback instance.
C15_MadeUnsat == pc = "made" => ~Satisfiable(made)


\* C16: with heuristic fixed, a frame of backtrack that branches does so on
\* the smallest variable occurring in its formula as it is after the
\* frame's unit propagation and pure-literal removal, positive literal
\* first, then the negative one.
C16_FixedSmallestVar ==
    (solver = "dpll" /\ heuristic = "fixed" /\ pc = "dpll") =>
        \A k \in 1..Len(stack) :
            stack[k].at = "branch" =>
                LET v == SetMin(VarsOf(Deref(heap, stack[k].form)))
                IN  /\ stack[k].choices = <<v, -v>>
                    /\ Occurs(heap, stack[k].form, stack[k].choices[1])


\* C17: in dp_solver and dpll_solver, on an input without an empty clause,
\* once unit propagation has left a clause empty its next step reports the
\* conflict: no further unit clause is processed and neither the formula
\* nor a clause changes.
C17_ConflictAtOnce ==
    [][IF HasEmpty(heap, cnf) THEN TRUE
       ELSE IF pc = "dp_unit"
       THEN HasEmpty(heap, formula) =>
               /\ pc' = "done" /\ ~result'.sat
               /\ heap' = heap /\ formula' = formula
       ELSE IF pc = "dpll" /\ ret = NoRet /\ Len(stack) > 0
       THEN (Top.at = "unit" /\ HasEmpty(heap, Top.form)) =>
               /\ ret' = "False"
               /\ heap' = heap
       ELSE TRUE]_vars


\* The number of clauses of the formula that hold literal l.
Containing(h, form, l) == Cardinality({i \in 1..Len(form) : Has(h[form[i]], l)})

\* The literal the stated rule picks: the most clauses, then the smallest
\* variable, then the positive literal.
StatedMostFreq(h, form) ==
    LET lits == LitsOf(h, form)
        best == SetMax({Containing(h, form, l) : l \in lits})
        tied == {l \in lits : Containing(h, form, l) = best}
        v == SetMin({Abs(l) : l \in tied})
    IN  IF v \in tied THEN v ELSE -v

\* C18: with heuristic mostfreq, a frame of backtrack that branches does so
\* on a literal held by the most clauses of its formula, among the tied
\* ones the one of the smallest variable, positive before negative; the
\* second branch is its negation.
C18_MostFreqTieBreak ==
    (solver = "dpll" /\ heuristic = "mostfreq" /\ pc = "dpll") =>
        \A k \in 1..Len(stack) :
            stack[k].at = "branch" =>
                LET lit == StatedMostFreq(heap, stack[k].form)
                IN  stack[k].choices = <<lit, -lit>>


\* The variable the stated rule eliminates: among the variables occurring
\* in both polarities, the most (least) clauses holding it in either
\* polarity, then the smallest index.
StatedVar(h, form, strat) ==
    LET lits == LitsOf(h, form)
        both == {Abs(l) : l \in {x \in lits : -x \in lits}}
        N(v) == Cardinality({i \in 1..Len(form) :
                               Has(h[form[i]], v) \/ Has(h[form[i]], -v)})
        best == IF strat = "mostfreq" THEN SetMax({N(v) : v \in both})
                ELSE SetMin({N(v) : v \in both})
    IN  SetMin({v \in both : N(v) = best})

\* C19: with strategy mostfreq (leastfreq), every elimination step of
\* resolution_solver and dp_solver eliminates a variable occurring in both
\* polarities that the most (least) clauses hold, of the tied ones the one
\* with the smallest index.
C19_FreqTieBreak ==
    [][(/\ solver \in {"resolution", "dp"}
        /\ strategy \in {"mostfreq", "leastfreq"}
        /\ steps' = steps + 1) =>
          NextVar = StatedVar(heap,
                              IF solver = "resolution"
                              THEN ResPureElim(heap, formula) ELSE formula,
                              strategy)]_vars


\* Some clause of the formula holds a literal and its negation.
HasTautology(h, form) == \E i \in 1..Len(form) : IsTautology(h[form[i]])

\* C20: between two simplification steps of a running solver no clause of
\* its working formula (of any frame's formula, for dpll_solver) holds both
\* a literal and its negation, whatever the input.
C20_NoTautology ==
    /\ pc \in {"res_loop", "dp_unit", "dp_pure", "dp_elim"} =>
          ~HasTautology(heap, formula)
    /\ pc = "dpll" =>
          \A k \in 1..Len(stack) : ~HasTautology(heap, stack[k].form)


\* A formula without an empty clause whose literals are v and -v for one
\* variable v.
OneBipolar(f) ==
    /\ \A i \in 1..Len(f) : Len(f[i]) > 0
    /\ \E v \in 1..MaxVar : UNION {Range(f[i]) : i \in 1..Len(f)} = {v, -v}

\* The formula [[v], [-v]] for some variable v.
UnitPair(f) == \E v \in 1..MaxVar : f = <<<<v>>, <<-v>>>>

\* C21 as stated: on a formula whose only variable is bipolar,
\* resolution_solver and dp_solver each return clause_counts of length 1,
\* and on [[v], [-v]] the verdict is UNSAT.
C21_OneStepEach ==
    (pc = "done" /\ solver \in {"resolution", "dp"} /\ OneBipolar(input)) =>
        /\ Len(result.clause_counts) = 1
        /\ UnitPair(input) => ~result.sat

\* C21: on a formula without an empty clause whose only variable is
\* bipolar, resolution_solver returns after exactly one elimination step
\* (clause_counts of length 1); dp_solver returns after none when the
\* formula holds a unit clause (unit propagation settles it, clause_counts
\* is empty) and after exactly one otherwise; on [[v], [-v]] both report
\* UNSAT.
C21_AtMostOneStep ==
    (pc = "done" /\ solver \in {"resolution", "dp"} /\ OneBipolar(input)) =>
        /\ solver = "resolution" => Len(result.clause_counts) = 1
        /\ solver = "dp" =>
              Len(result.clause_counts) =
                 IF \E i \in 1..Len(input) : Len(input[i]) = 1 THEN 0 ELSE 1
        /\ steps = Len(result.clause_counts)
        /\ UnitPair(input) => ~result.sat

\* C21 witness: dp_solver has refuted [[v], [-v]] by unit propagation,
\* without an elimination step.
C21_Witness ==
    /\ pc = "done" /\ solver = "dp"
    /\ UnitPair(input)
    /\ ~result.sat /\ result.clause_counts = <<>> /\ steps = 0


\* C22: the errors of dp_solver and dpll_solver are one-sided: for every
\* input, repeated literals included, and every strategy or heuristic, a
\* returned sat = false means that no truth assignment satisfies the input;
\* a satisfiable input is never reported unsatisfiable.
C22_UnsatIsSound ==
    (pc = "done" /\ solver \in {"dp", "dpll"} /\ ~result.sat)
        => ~Satisfiable(input)

\* C22 witness: a solver that removes in place has reported UNSAT on an
\* input without an empty clause in which a clause repeats a literal that
\* also occurs negated, so that the in-place removal has met the repeat.
C22_Witness ==
    /\ pc = "done" /\ solver \in {"dp", "dpll"}
    /\ \A i \in 1..Len(input) : Len(input[i]) > 0
    /\ \E i, m \in 1..Len(input) :
          \E j, k \in 1..Len(input[i]) :
              j # k /\ input[i][j] = input[i][k] /\ Has(input[m], -input[i][j])
    /\ ~result.sat

====
